---- MODULE Spec2Model ----
(***************************************************************************)
(* Artify server (src/index.js): the request handlers of the art catalog   *)
(* as a state machine over the four MongoDB collections.  Every `await` on *)
(* a collection call is one atomic step of the store; a handler with       *)
(* several calls is a process whose calls interleave with those of the     *)
(* other requests in flight.                                               *)
(***************************************************************************)
EXTENDS Integers, Sequences, FiniteSets, TLC

VARIABLES arts, favorites, reports, users, ids, now, pc, req, resp, obs

vars == <<arts, favorites, reports, users, ids, now, pc, req, resp, obs>>

store == <<arts, favorites, reports, users>>

(***************************************************************************)
(* Bounds of the model.                                                    *)
(***************************************************************************)
NumProcs == 2
MaxArts == 2
MaxFavorites == 2
MaxReports == 2
MaxUsers == 2
MaxTime == 1
MaxLikes == 3

Procs == 1..NumProcs

(***************************************************************************)
(* Strings are sequences of one-character strings, so that trim() and      *)
(* toLowerCase() are computed and not assumed.                             *)
(***************************************************************************)
UpperLetters == <<"A","B","C","D","E","F","G","H","I","J","K","L","M",
                  "N","O","P","Q","R","S","T","U","V","W","X","Y","Z">>
LowerLetters == <<"a","b","c","d","e","f","g","h","i","j","k","l","m",
                  "n","o","p","q","r","s","t","u","v","w","x","y","z">>

LowerChar(c) ==
    IF \E i \in 1..Len(UpperLetters) : UpperLetters[i] = c
    THEN LowerLetters[CHOOSE i \in 1..Len(UpperLetters) : UpperLetters[i] = c]
    ELSE c

ToLowerCase(s) == [i \in 1..Len(s) |-> LowerChar(s[i])]

RECURSIVE TrimStart(_)
TrimStart(s) == IF s # <<>> /\ Head(s) = " " THEN TrimStart(Tail(s)) ELSE s

RECURSIVE TrimEnd(_)
TrimEnd(s) ==
    IF s # <<>> /\ s[Len(s)] = " " THEN TrimEnd(SubSeq(s, 1, Len(s) - 1)) ELSE s

Trim(s) == TrimEnd(TrimStart(s))

\* A missing key of a JSON body / an undefined JavaScript value.
Undefined == <<"<undefined>">>

\* JavaScript truthiness of a string-or-undefined value: "" and undefined are falsy.
Truthy(v) == v # Undefined /\ v # <<>>

\* a || b
OrElse(a, b) == IF Truthy(a) THEN a ELSE b

Public == <<"P","u","b","l","i","c">>
Private == <<"P","r","i","v","a","t","e">>

normalizeVisibility(v) ==
    IF ~Truthy(v) THEN Public
    ELSE LET s == ToLowerCase(Trim(v))
         IN  IF s = <<"p","r","i","v","a","t","e">> THEN Private ELSE Public

(***************************************************************************)
(* Identifiers.  A request carries an id string: n in 1..MaxArts stands    *)
(* for the 24-digit hex string of the n-th ObjectId, BadId for a string    *)
(* that is no ObjectId.  BSON values are typed: an ObjectId never equals   *)
(* the string of its hex digits.                                           *)
(***************************************************************************)
BadId == 0
IdInputs == 0..MaxArts

ObjectIdIsValid(s) == s # BadId
NewObjectId(s) == <<"ObjectId", s>>
StringOf(s) == <<"String", s>>

\* The key of arts / users / favorites / reports is the document's _id.
Field(doc, f) == IF f \in DOMAIN doc THEN doc[f] ELSE Undefined

\* collection.insertOne(doc) with the driver-generated _id k.
InsertOne(coll, k, doc) ==
    [i \in DOMAIN coll \cup {k} |-> IF i = k THEN doc ELSE coll[i]]

\* collection.deleteOne({_id}) / deleteMany(filter): the documents that stay.
Remove(coll, gone) == [i \in DOMAIN coll \ gone |-> coll[i]]

\* update operator $set: the fields of upd overwrite or extend doc.
SetFields(doc, upd) ==
    [f \in DOMAIN doc \cup DOMAIN upd |-> IF f \in DOMAIN upd THEN upd[f] ELSE doc[f]]

\* `delete obj.key`
DeleteKey(obj, key) == [f \in DOMAIN obj \ {key} |-> obj[f]]


(***************************************************************************)
(* Request inputs.                                                         *)
(***************************************************************************)
EmailLower == <<"a","@","x">>
EmailMixed == <<"A","@","x">>
EmailInputs == {EmailLower, EmailMixed}

VisibilityInputs ==
    { <<>>,
      <<"p","r","i","v","a","t","e">>,
      <<" ","P","R","I","V","A","T","E"," ">>,
      <<"p","u","b","l","i","c">>,
      <<"h","i","d","d","e","n">> }

Title == <<"S","u","n","s","e","t">>
Oil == <<"O","i","l">>
Uncategorized == <<"U","n","c","a","t","e","g","o","r","i","z","e","d">>
Image == <<"u","1">>
UserName == <<"A","n","a">>
Photo == <<"p","h">>

\* The keys of a JSON body that carry a value (a key with no value is not sent).
Defined(r) == [f \in {k \in DOMAIN r : r[k] # Undefined} |-> r[f]]

\* Bodies of POST /arts: the email under any of its aliases, the required
\* fields present or missing, any visibility.
CreateBodies ==
    { Defined([userEmail |-> e, artistEmail |-> ae, title |-> Title,
               image |-> Image, userName |-> UserName, visibility |-> v]) :
        e \in EmailInputs \cup {Undefined},
        ae \in {Undefined, EmailMixed},
        v \in {Undefined, <<"P","R","I","V","A","T","E">>} }
    \cup
    { Defined([email |-> EmailMixed, title |-> t, image |-> Image,
               userName |-> UserName]) : t \in {Title, Undefined} }

\* Bodies of PATCH /arts/:id: visibility in any form or absent, with or
\* without the protected fields likes and createdAt.
ProtectedFields == { <<>>, [likes |-> 0 - 5, createdAt |-> 0 - 1] }

UpdateBodies ==
    { Defined([visibility |-> v]) @@ x :
        v \in VisibilityInputs \cup {Undefined}, x \in ProtectedFields }

(***************************************************************************)
(* Responses.  op and id name the request the response answers.            *)
(***************************************************************************)
NoResponse == [op |-> "none", id |-> BadId, status |-> 0, body |-> <<>>]

Response(op, id, status, body) ==
    [op |-> op, id |-> id, status |-> status, body |-> body]

NoRequest == [op |-> "none", id |-> BadId]

\* resp[p] is the last response sent to the client of p.  No handler reads
\* it; it is kept only where obs.watch says a client is looking at it.
\* res.status(s).json(body): the handler of p returns.
Reply(p, r) ==
    /\ pc' = [pc EXCEPT ![p] = "idle"]
    /\ req' = [req EXCEPT ![p] = NoRequest]
    /\ resp' = IF obs.watch THEN [resp EXCEPT ![p] = r] ELSE resp

\* A handler of p goes on to its next store call.
Goto(p, label, r) ==
    /\ pc' = [pc EXCEPT ![p] = label]
    /\ req' = [req EXCEPT ![p] = r]
    /\ resp' = IF obs.watch THEN [resp EXCEPT ![p] = NoResponse] ELSE resp

Init ==
    /\ arts = <<>>
    /\ favorites = <<>>
    /\ reports = <<>>
    /\ users = <<>>
    /\ ids = [art |-> 0, favorite |-> 0, report |-> 0, user |-> 0]
    /\ now = 0
    /\ pc = [p \in Procs |-> "idle"]
    /\ req = [p \in Procs |-> NoRequest]
    /\ resp = [p \in Procs |-> NoResponse]
    /\ obs = [watch |-> FALSE, base |-> <<>>, done |-> <<>>, before |-> 0,
              dirty |-> FALSE, log |-> <<>>]

\* new Date(): the clock may advance between two reads.
Tick ==
    /\ now < MaxTime
    /\ now' = now + 1
    /\ UNCHANGED <<arts, favorites, reports, users, ids, pc, req, resp>>

(***************************************************************************)
(* User directory.                                                         *)
(***************************************************************************)
\* updateOne(query {email}, {$set, $setOnInsert}, {upsert: true}): the matched
\* document gets $set; with no match a document is inserted from the query's
\* equality field, $set and $setOnInsert.
UpsertOverwriting(coll, email, set, onInsert, k) ==
    LET hit == {u \in DOMAIN coll : Field(coll[u], "email") = email}
    IN  IF hit # {}
        THEN LET u == CHOOSE u \in hit : \A w \in hit : u <= w
             IN  [coll EXCEPT ![u] = SetFields(SetFields(@, set), onInsert)]
        ELSE InsertOne(coll, k, SetFields(SetFields([email |-> email], set), onInsert))

UpsertInserting(coll, email, set, onInsert, k) ==
    InsertOne(coll, k, SetFields(SetFields([email |-> email], set), onInsert))

Upsert(coll, email, set, onInsert, k) ==
    LET hit == {u \in DOMAIN coll : Field(coll[u], "email") = email}
    IN  IF hit # {}
        THEN LET u == CHOOSE u \in hit : \A w \in hit : u <= w
             IN  [coll EXCEPT ![u] = SetFields(@, set)]
        ELSE InsertOne(coll, k, SetFields(SetFields([email |-> email], set), onInsert))

Matches(coll, email) == {u \in DOMAIN coll : Field(coll[u], "email") = email}


Admin == <<"A","d","m","i","n">>
User == <<"U","s","e","r">>

DisplayName == <<"A","n","a"," ","B">>

\* Bodies of POST /users.
UserBodies ==
    { Defined([email |-> e, name |-> n, displayName |-> d, photoURL |-> Photo]) :
        e \in EmailInputs,
        n \in {Undefined, UserName},
        d \in {Undefined, DisplayName} }

RoleInputs ==
    { Undefined,
      <<"a","d","m","i","n">>,
      <<" ","A","D","M","I","N"," ">>,
      <<"u","s","e","r">>,
      User,
      <<"r","o","o","t">> }

UserIdInputs == 0..MaxUsers

CanInsertUser(email) == Matches(users, email) # {} \/ ids.user < MaxUsers

\* The collection and the id counter after an upsert keyed on email.
UserUpsert(email, set, onInsert) ==
    /\ CanInsertUser(email)
    /\ users' = Upsert(users, email, set, onInsert, ids.user + 1)
    /\ ids' = IF Matches(users, email) = {}
              THEN [ids EXCEPT !.user = @ + 1] ELSE ids

UpsertResult(email) ==
    [matchedCount |-> IF Matches(users, email) = {} THEN 0 ELSE 1,
     upsertedCount |-> IF Matches(users, email) = {} THEN 1 ELSE 0]

\* $set of POST /users.
SyncSet(user) ==
    [name |-> OrElse(Field(user, "name"), Field(user, "displayName")),
     photoURL |-> Field(user, "photoURL"),
     lastLogin |-> now]

\* $setOnInsert of POST /users.
SyncSetOnInsert(user) ==
    [email |-> Field(user, "email"), createdAt |-> now, role |-> User]

\* POST /users
SyncOnLogin(p, user) ==
    /\ pc[p] = "idle"
    /\ UserUpsert(Field(user, "email"), SyncSet(user), SyncSetOnInsert(user))
    /\ Reply(p, Response("sync", BadId, 200, UpsertResult(Field(user, "email"))))
    /\ UNCHANGED <<arts, favorites, reports, now>>

\* The role of PATCH /users/:id/role after its case normalisation.
CanonicalRoleAsGiven(role) == role

CanonicalRole(role) ==
    IF Truthy(role)
    THEN LET lower == ToLowerCase(Trim(role))
         IN  IF lower = <<"a","d","m","i","n">> THEN Admin
             ELSE IF lower = <<"u","s","e","r">> THEN User
             ELSE role
    ELSE role

\* PATCH /users/:id/role
SetRole(p, id, role) ==
    /\ pc[p] = "idle"
    /\ UNCHANGED <<arts, favorites, reports, ids, now>>
    /\ IF ~ObjectIdIsValid(id)
       THEN /\ Reply(p, Response("setRole", id, 400, [error |-> "Invalid ID"]))
            /\ UNCHANGED users
       ELSE IF CanonicalRole(role) \notin {Admin, User}
       THEN /\ Reply(p, Response("setRole", id, 400, [error |-> "Invalid role"]))
            /\ UNCHANGED users
       ELSE /\ users' = IF id \in DOMAIN users
                        THEN [users EXCEPT ![id] =
                                 SetFields(@, [role |-> CanonicalRole(role)])]
                        ELSE users
            /\ Reply(p, Response("setRole", id, 200,
                         [matchedCount |-> IF id \in DOMAIN users THEN 1 ELSE 0]))

\* DELETE /users/:id
DeleteUser(p, id) ==
    /\ pc[p] = "idle"
    /\ UNCHANGED <<arts, favorites, reports, ids, now>>
    /\ IF ~ObjectIdIsValid(id)
       THEN /\ Reply(p, Response("deleteUser", id, 400, [error |-> "Invalid ID"]))
            /\ UNCHANGED users
       ELSE /\ users' = Remove(users, {id})
            /\ Reply(p, Response("deleteUser", id, 200,
                         [deletedCount |-> IF id \in DOMAIN users THEN 1 ELSE 0]))

(***************************************************************************)
(* Report ledger.                                                          *)
(***************************************************************************)
Reason == <<"s","p","a","m">>

\* Bodies of POST /reports; artId is an id string.
ReportBodies ==
    { [artId |-> a, reporterEmail |-> EmailLower, reason |-> Reason] : a \in IdInputs }
    \cup { [artId |-> 1, reason |-> Reason],
           [artId |-> 1, reporterEmail |-> EmailLower],
           [reporterEmail |-> EmailLower, reason |-> Reason] }

ReportIdInputs == 0..MaxReports

\* POST /reports.  new ObjectId(report.artId) throws on a malformed id, which
\* the handler's catch turns into a 500.
SubmitReport(p, report) ==
    /\ pc[p] = "idle"
    /\ UNCHANGED <<arts, favorites, users, now>>
    /\ IF \/ "artId" \notin DOMAIN report
          \/ ~Truthy(Field(report, "reporterEmail"))
          \/ ~Truthy(Field(report, "reason"))
       THEN /\ Reply(p, Response("report", BadId, 400,
                         [error |-> "Missing required fields"]))
            /\ UNCHANGED <<reports, ids>>
       ELSE IF ~ObjectIdIsValid(report.artId)
       THEN /\ Reply(p, Response("report", report.artId, 500,
                         [error |-> "Internal server error"]))
            /\ UNCHANGED <<reports, ids>>
       ELSE /\ ids.report < MaxReports
            /\ reports' = InsertOne(reports, ids.report + 1,
                              SetFields(report, [artId |-> NewObjectId(report.artId),
                                                 createdAt |-> now,
                                                 status |-> "pending"]))
            /\ ids' = [ids EXCEPT !.report = @ + 1]
            /\ Reply(p, Response("report", report.artId, 201,
                         [insertedId |-> ids.report + 1]))

\* DELETE /admin/reports/:id
ResolveReport(p, id) ==
    /\ pc[p] = "idle"
    /\ UNCHANGED <<arts, favorites, users, ids, now>>
    /\ IF ~ObjectIdIsValid(id)
       THEN /\ Reply(p, Response("resolve", id, 400, [error |-> "Invalid ID"]))
            /\ UNCHANGED reports
       ELSE /\ reports' = Remove(reports, {id})
            /\ Reply(p, Response("resolve", id, 200,
                         [deletedCount |-> IF id \in DOMAIN reports THEN 1 ELSE 0]))


(***************************************************************************)
(* Artwork repository.                                                     *)
(***************************************************************************)
\* art.userEmail || art.email || art.artistEmail || art.uemail || ""
emailFromBody(art) ==
    OrElse(OrElse(OrElse(OrElse(Field(art, "userEmail"), Field(art, "email")),
                         Field(art, "artistEmail")),
                  Field(art, "uemail")),
           <<>>)

\* The document POST /arts stores; created and updated are its two clock reads.
ArtDoc(art, created, updated) ==
    [image |-> art.image,
     title |-> art.title,
     category |-> OrElse(Field(art, "category"), Uncategorized),
     visibility |-> normalizeVisibility(Field(art, "visibility")),
     userName |-> art.userName,
     userEmail |-> ToLowerCase(emailFromBody(art)),
     artistEmail |-> OrElse(Field(art, "artistEmail"), ToLowerCase(emailFromBody(art))),
     artistPhoto |-> OrElse(OrElse(Field(art, "artistPhoto"),
                                   Field(art, "artistPhotoUrl")), <<>>),
     likes |-> 0,
     createdAt |-> created,
     updatedAt |-> updated]

\* POST /arts up to its insertOne.  updated is the second read of the clock,
\* which may have advanced since the first.
CreateInsert(p, art, updated) ==
    /\ pc[p] = "idle"
    /\ UNCHANGED <<favorites, reports, users>>
    /\ IF ~Truthy(emailFromBody(art))
       THEN /\ Reply(p, Response("create", BadId, 400,
                         [error |-> "userEmail is required in request body"]))
            /\ UNCHANGED <<arts, ids, now>>
       ELSE IF \/ ~Truthy(Field(art, "title"))
               \/ ~Truthy(Field(art, "image"))
               \/ ~Truthy(Field(art, "userName"))
       THEN /\ Reply(p, Response("create", BadId, 400,
                         [error |-> "title, image and userName are required"]))
            /\ UNCHANGED <<arts, ids, now>>
       ELSE /\ ids.art < MaxArts
            /\ updated \in {now, now + 1}
            /\ updated <= MaxTime
            /\ now' = updated
            /\ arts' = InsertOne(arts, ids.art + 1, ArtDoc(art, now, updated))
            /\ Goto(p, "create_sync",
                    [op |-> "create", id |-> ids.art + 1,
                     doc |-> ArtDoc(art, now, updated)])
            /\ ids' = [ids EXCEPT !.art = @ + 1]

CreateReply(p) ==
    Reply(p, Response("create", req[p].id, 201,
              SetFields(req[p].doc, [_id |-> req[p].id])))

\* POST /arts: the best-effort upsert of the author, then the response.
CreateSync(p) ==
    /\ pc[p] = "create_sync"
    /\ UNCHANGED <<arts, favorites, reports, now>>
    /\ UserUpsert(req[p].doc.userEmail,
                  [displayName |-> req[p].doc.userName,
                   photoURL |-> req[p].doc.artistPhoto],
                  [role |-> User, createdAt |-> now])
    /\ CreateReply(p)

\* POST /arts: the upsert throws; the failure is caught and logged.
CreateSyncThrows(p) ==
    /\ pc[p] = "create_sync"
    /\ UNCHANGED <<arts, favorites, reports, users, ids, now>>
    /\ Reply(p, Response("create", req[p].id, 500, [error |-> "Internal server error"]))

CreateSyncFails(p) ==
    /\ pc[p] = "create_sync"
    /\ UNCHANGED <<arts, favorites, reports, users, ids, now>>
    /\ CreateReply(p)

\* The $set document of PATCH /arts/:id.
UpdateDocUnfiltered(body) == SetFields(body, [updatedAt |-> now])

UpdateDoc(body) ==
    LET update == DeleteKey(DeleteKey(body, "likes"), "createdAt")
        normal == IF Truthy(Field(update, "visibility"))
                  THEN SetFields(update,
                           [visibility |-> normalizeVisibility(update.visibility)])
                  ELSE update
    IN  SetFields(normal, [updatedAt |-> now])

\* PATCH /arts/:id
Update(p, id, body) ==
    /\ pc[p] = "idle"
    /\ UNCHANGED <<favorites, reports, users, ids, now>>
    /\ IF ~ObjectIdIsValid(id)
       THEN /\ Reply(p, Response("update", id, 400, [error |-> "Invalid id"]))
            /\ UNCHANGED arts
       ELSE /\ arts' = IF id \in DOMAIN arts
                       THEN [arts EXCEPT ![id] = SetFields(@, UpdateDoc(body))]
                       ELSE arts
            /\ Reply(p, Response("update", id, 200,
                         [matchedCount |-> IF id \in DOMAIN arts THEN 1 ELSE 0]))

\* update operator $inc on likes.
IncLikesBySet(doc, d) == [doc EXCEPT !.likes = d]

IncLikes(doc, d) == [doc EXCEPT !.likes = @ + d]

\* updated?.likes || 0
LikesOf(id) == IF id \in DOMAIN arts THEN arts[id].likes ELSE 0

\* PATCH /arts/:id/like up to its updateOne.
LikeUpdate(p, id) ==
    /\ pc[p] = "idle"
    /\ UNCHANGED <<favorites, reports, users, ids, now>>
    /\ IF ~ObjectIdIsValid(id)
       THEN /\ Reply(p, Response("like", id, 400, [error |-> "Invalid id"]))
            /\ UNCHANGED arts
       ELSE IF id \notin DOMAIN arts
       THEN /\ Reply(p, Response("like", id, 404, [error |-> "Artwork not found"]))
            /\ UNCHANGED arts
       ELSE /\ arts[id].likes < MaxLikes
            /\ arts' = [arts EXCEPT ![id] = IncLikes(@, 1)]
            /\ Goto(p, "like_find", [op |-> "like", id |-> id])

\* PATCH /arts/:id/like: the findOne that reads the count back.
LikeFind(p) ==
    /\ pc[p] = "like_find"
    /\ Reply(p, Response("like", req[p].id, 200, [likes |-> LikesOf(req[p].id)]))
    /\ UNCHANGED <<arts, favorites, reports, users, ids, now>>

\* if (current <= 0) return 400
NoLikesStrict(current) == current < 0

NoLikes(current) == current <= 0

\* PATCH /arts/:id/unlike up to its first findOne and the guard.
UnlikeFind(p, id) ==
    /\ pc[p] = "idle"
    /\ UNCHANGED <<arts, favorites, reports, users, ids, now>>
    /\ IF ~ObjectIdIsValid(id)
       THEN Reply(p, Response("unlike", id, 400, [error |-> "Invalid id"]))
       ELSE IF id \notin DOMAIN arts
       THEN Reply(p, Response("unlike", id, 404, [error |-> "Artwork not found"]))
       ELSE IF NoLikes(arts[id].likes)
       THEN Reply(p, Response("unlike", id, 400, [error |-> "No likes to remove"]))
       ELSE Goto(p, "unlike_update", [op |-> "unlike", id |-> id])

\* PATCH /arts/:id/unlike: the updateOne with $inc -1.
UnlikeUpdate(p) ==
    /\ pc[p] = "unlike_update"
    /\ arts' = IF req[p].id \in DOMAIN arts
               THEN [arts EXCEPT ![req[p].id] = IncLikes(@, 0 - 1)]
               ELSE arts
    /\ Goto(p, "unlike_find", req[p])
    /\ UNCHANGED <<favorites, reports, users, ids, now>>

\* The count an Unlike answers with: read back after the update.
UnlikeAnswerStale(id) == LikesOf(id) + 1

UnlikeAnswer(id) == LikesOf(id)

\* PATCH /arts/:id/unlike: the findOne that reads the count back.
UnlikeRead(p) ==
    /\ pc[p] = "unlike_find"
    /\ Reply(p, Response("unlike", req[p].id, 200, [likes |-> UnlikeAnswer(req[p].id)]))
    /\ UNCHANGED <<arts, favorites, reports, users, ids, now>>


\* deleteMany({field: value}): BSON equality is typed.
DeleteManyAll(coll, field, value) == <<>>

DeleteMany(coll, field, value) ==
    Remove(coll, {i \in DOMAIN coll : Field(coll[i], field) = value})

\* The value DELETE /arts/:id filters the favorites on: String(id).
FavoriteCascadeKey(id) == StringOf(id)

\* The value DELETE /arts/:id filters the reports on: new ObjectId(id).
ReportCascadeKeyAsString(id) == StringOf(id)

ReportCascadeKey(id) == NewObjectId(id)

\* DELETE /arts/:id up to its deleteOne.
DeleteOne(p, id) ==
    /\ pc[p] = "idle"
    /\ UNCHANGED <<favorites, reports, users, ids, now>>
    /\ IF ~ObjectIdIsValid(id)
       THEN /\ Reply(p, Response("delete", id, 400, [error |-> "Invalid id"]))
            /\ UNCHANGED arts
       ELSE /\ arts' = Remove(arts, {id})
            /\ Goto(p, "delete_favorites",
                    [op |-> "delete", id |-> id,
                     deletedCount |-> IF id \in DOMAIN arts THEN 1 ELSE 0])

DeleteReply(p) ==
    Reply(p, Response("delete", req[p].id, 200,
              [deletedCount |-> req[p].deletedCount]))

\* DELETE /arts/:id: the cascade to the favorites.
DeleteFavorites(p) ==
    /\ pc[p] = "delete_favorites"
    /\ UNCHANGED <<arts, reports, users, ids, now>>
    /\ favorites' = DeleteMany(favorites, "artId", FavoriteCascadeKey(req[p].id))
    /\ Goto(p, "delete_reports", req[p])

\* DELETE /arts/:id: the cascade to the reports, then the response.
DeleteReports(p) ==
    /\ pc[p] = "delete_reports"
    /\ UNCHANGED <<arts, favorites, users, ids, now>>
    /\ reports' = DeleteMany(reports, "artId", ReportCascadeKey(req[p].id))
    /\ DeleteReply(p)

\* DELETE /arts/:id: a cascade call throws; the empty catch skips what is
\* left of the cascade and the handler answers with the result.
DeleteCascadeFails(p) ==
    /\ pc[p] \in {"delete_favorites", "delete_reports"}
    /\ UNCHANGED <<arts, favorites, reports, users, ids, now>>
    /\ DeleteReply(p)

(***************************************************************************)
(* Favorite registry.                                                      *)
(***************************************************************************)
\* Bodies of POST /favorites; artId is an id string.
FavoriteBodies ==
    { [artId |-> a, userEmail |-> e] : a \in IdInputs, e \in EmailInputs }
    \cup { [artId |-> 1], [userEmail |-> EmailLower] }

FavoriteIdInputs == 0..MaxFavorites

\* findOne({artId, userEmail})
FavoriteExistsNever(artId, userEmail) == FALSE

FavoriteExists(artId, userEmail) ==
    \E f \in DOMAIN favorites :
        /\ Field(favorites[f], "artId") = artId
        /\ Field(favorites[f], "userEmail") = userEmail

\* POST /favorites up to its findOne.
AddFavoriteFind(p, body) ==
    /\ pc[p] = "idle"
    /\ UNCHANGED <<arts, favorites, reports, users, ids, now>>
    /\ IF "artId" \notin DOMAIN body \/ ~Truthy(Field(body, "userEmail"))
       THEN Reply(p, Response("favorite", BadId, 400,
                      [error |-> "artId and userEmail required"]))
       ELSE IF ~ObjectIdIsValid(body.artId)
       THEN Reply(p, Response("favorite", body.artId, 400, [error |-> "Invalid artId"]))
       ELSE IF FavoriteExists(NewObjectId(body.artId), body.userEmail)
       THEN Reply(p, Response("favorite", body.artId, 409,
                      [error |-> "Already in favorites"]))
       ELSE Goto(p, "favorite_insert",
                 [op |-> "favorite", id |-> body.artId, userEmail |-> body.userEmail])

\* POST /favorites: the insertOne, then the response.
AddFavoriteInsert(p) ==
    /\ pc[p] = "favorite_insert"
    /\ ids.favorite < MaxFavorites
    /\ favorites' = InsertOne(favorites, ids.favorite + 1,
                        [artId |-> NewObjectId(req[p].id),
                         userEmail |-> req[p].userEmail,
                         createdAt |-> now])
    /\ ids' = [ids EXCEPT !.favorite = @ + 1]
    /\ Reply(p, Response("favorite", req[p].id, 201, [insertedId |-> ids.favorite + 1]))
    /\ UNCHANGED <<arts, reports, users, now>>

\* DELETE /favorites/:id
RemoveFavorite(p, id) ==
    /\ pc[p] = "idle"
    /\ UNCHANGED <<arts, reports, users, ids, now>>
    /\ IF ~ObjectIdIsValid(id)
       THEN /\ Reply(p, Response("unfavorite", id, 400, [error |-> "Invalid id"]))
            /\ UNCHANGED favorites
       ELSE /\ favorites' = Remove(favorites, {id})
            /\ Reply(p, Response("unfavorite", id, 200,
                         [deletedCount |-> IF id \in DOMAIN favorites THEN 1 ELSE 0]))

\* The JavaScript value null.
Null == <<"<null>">>

\* find({userEmail}).sort({createdAt: -1}): the orders of the user's
\* favorites the store may return.
FavoritesOf(email) ==
    LET S == {f \in DOMAIN favorites : Field(favorites[f], "userEmail") = email}
    IN  {o \in [1..Cardinality(S) -> S] :
            /\ \A i, j \in DOMAIN o : i # j => o[i] # o[j]
            /\ \A i, j \in DOMAIN o :
                  i < j => favorites[o[i]].createdAt >= favorites[o[j]].createdAt}

\* arts.find((a) => a._id.toString() === f.artId.toString()) || null, over
\* the artworks of find({_id: {$in: artIds}}).
ArtOfNothing(artId) == Null

ArtOf(artId) ==
    IF \E a \in DOMAIN arts : NewObjectId(a) = artId
    THEN LET a == CHOOSE a \in DOMAIN arts : NewObjectId(a) = artId
         IN  SetFields(arts[a], [_id |-> a])
    ELSE Null

\* GET /favorites up to the find on the favorites.
ListFavoritesFind(p, email) ==
    /\ pc[p] = "idle"
    /\ UNCHANGED <<arts, favorites, reports, users, ids, now>>
    /\ IF ~Truthy(email)
       THEN Reply(p, Response("favorites", BadId, 400,
                      [error |-> "email query param required"]))
       ELSE \E order \in FavoritesOf(email) :
               Goto(p, "favorites_arts",
                    [op |-> "favorites", id |-> BadId, email |-> email,
                     favs |-> [i \in DOMAIN order |->
                                  SetFields(favorites[order[i]], [_id |-> order[i]])]])

\* GET /favorites: the find on the artworks, the join, and the response.
ListFavoritesJoin(p) ==
    /\ pc[p] = "favorites_arts"
    /\ UNCHANGED <<arts, favorites, reports, users, ids, now>>
    /\ Reply(p, Response("favorites", BadId, 200,
                 [i \in DOMAIN req[p].favs |->
                     [favoriteId |-> req[p].favs[i]._id,
                      createdAt |-> req[p].favs[i].createdAt,
                      art |-> ArtOf(req[p].favs[i].artId)]]))

(***************************************************************************)
(* Public list and search.                                                 *)
(***************************************************************************)
\* The limit of GET /arts when the query names none.
DefaultLimit == 12

Max(a, b) == IF a >= b THEN a ELSE b
Min(a, b) == IF a <= b THEN a ELSE b

\* new RegExp(search, "i").test(s) for a search text of letters: s contains
\* the text, whatever the case.
Contains(s, text) ==
    \E i \in 0..(Len(s) - Len(text)) :
        SubSeq(ToLowerCase(s), i + 1, i + Len(text)) = ToLowerCase(text)

\* {$regex: /^public$/i}
IsPublicAnything(v) == TRUE

IsPublic(v) == ToLowerCase(v) = <<"p","u","b","l","i","c">>

\* The artworks the query of GET /arts selects.
Matching(q) ==
    {a \in DOMAIN arts :
        /\ IsPublic(Field(arts[a], "visibility"))
        /\ Truthy(Field(q, "category"))
              => Field(arts[a], "category") = q.category
        /\ Truthy(Field(q, "artistEmail"))
              => Field(arts[a], "artistEmail") = ToLowerCase(q.artistEmail)
        /\ Truthy(Field(q, "userEmail"))
              => Field(arts[a], "userEmail") = ToLowerCase(q.userEmail)
        /\ Truthy(Field(q, "search"))
              => \/ Contains(Field(arts[a], "title"), q.search)
                 \/ Contains(Field(arts[a], "userName"), q.search)}

\* sort({createdAt: -1}): the orders of the set S the store may return; the
\* order of two documents with the same createdAt is the store's choice.
NewestFirst(S) ==
    {o \in [1..Cardinality(S) -> S] :
        /\ \A i, j \in DOMAIN o : i # j => o[i] # o[j]
        /\ \A i, j \in DOMAIN o :
              i < j => arts[o[i]].createdAt >= arts[o[j]].createdAt}

\* page = 1 and limit = 12 when the query does not name them.
PageOf(q) == IF "page" \in DOMAIN q THEN q.page ELSE 1
LimitOf(q) == IF "limit" \in DOMAIN q THEN q.limit ELSE DefaultLimit

\* (Math.max(1, page) - 1) * Math.max(1, limit)
SkipOfNextPage(q) == Max(1, PageOf(q)) * Max(1, LimitOf(q))

SkipOf(q) == (Max(1, PageOf(q)) - 1) * Max(1, LimitOf(q))

\* cursor.skip(skip).limit(lim).toArray() on the ordered documents.
PageSlice(order, q) ==
    LET first == SkipOf(q) + 1
        last == Min(SkipOf(q) + Max(1, LimitOf(q)), Len(order))
    IN  [i \in 1..Max(0, last - first + 1) |->
            SetFields(arts[order[first + i - 1]], [_id |-> order[first + i - 1]])]

\* GET /arts up to cursor.toArray().
ListFind(p, q) ==
    /\ pc[p] = "idle"
    /\ \E order \in NewestFirst(Matching(q)) :
          Goto(p, "list_count",
               [op |-> "list", id |-> BadId, query |-> q, data |-> PageSlice(order, q)])
    /\ UNCHANGED <<arts, favorites, reports, users, ids, now>>

\* GET /arts: countDocuments(query), then the response.
ListCount(p) ==
    /\ pc[p] = "list_count"
    /\ Reply(p, Response("list", BadId, 200,
                 [total |-> Cardinality(Matching(req[p].query)),
                  page |-> PageOf(req[p].query),
                  limit |-> Max(1, LimitOf(req[p].query)),
                  data |-> req[p].data]))
    /\ UNCHANGED <<arts, favorites, reports, users, ids, now>>

(***************************************************************************)
(* Admin statistics.  The handler reads the counters one store call after  *)
(* the other; requests of other clients may write between two of them.     *)
(* The counts by day and by contributor that follow the four totals read   *)
(* the store, change nothing, and are left out of the response here.       *)
(***************************************************************************)
\* artCollection.countDocuments({visibility: v})
CountVisibility(v) ==
    Cardinality({a \in DOMAIN arts : Field(arts[a], "visibility") = v})

\* reportsCollection.countDocuments()
ReportRows == Cardinality(DOMAIN reports)

\* reportsCollection.distinct("artId").length
ReportedArts == Cardinality({reports[r].artId : r \in DOMAIN reports})

\* GET /admin/stats: usersCollection.countDocuments().
StatsUsers(p) ==
    /\ pc[p] = "idle"
    /\ Goto(p, "stats_public",
            [op |-> "stats", id |-> BadId, totalUsers |-> Cardinality(DOMAIN users)])
    /\ UNCHANGED <<arts, favorites, reports, users, ids, now>>

StatsPublic(p) ==
    /\ pc[p] = "stats_public"
    /\ Goto(p, "stats_private",
            req[p] @@ [totalPublicArts |-> CountVisibility(Public)])
    /\ UNCHANGED <<arts, favorites, reports, users, ids, now>>

StatsPrivate(p) ==
    /\ pc[p] = "stats_private"
    /\ Goto(p, "stats_reported",
            req[p] @@ [totalPrivateArts |-> CountVisibility(Private)])
    /\ UNCHANGED <<arts, favorites, reports, users, ids, now>>

StatsReported(p) ==
    /\ pc[p] = "stats_reported"
    /\ Goto(p, "stats_rest", req[p] @@ [totalReportedArts |-> ReportedArts])
    /\ UNCHANGED <<arts, favorites, reports, users, ids, now>>

\* distinct throws: the inner catch falls back to countDocuments().
StatsDistinctFails(p) ==
    /\ pc[p] = "stats_reported"
    /\ Goto(p, "stats_fallback", req[p])
    /\ UNCHANGED <<arts, favorites, reports, users, ids, now>>

StatsFallback(p) ==
    /\ pc[p] = "stats_fallback"
    /\ Goto(p, "stats_rest", req[p] @@ [totalReportedArts |-> ReportRows])
    /\ UNCHANGED <<arts, favorites, reports, users, ids, now>>

\* The remaining reads and the response.
StatsReply(p) ==
    /\ pc[p] = "stats_rest"
    /\ Reply(p, Response("stats", BadId, 200,
                 [totalUsers |-> req[p].totalUsers,
                  totalPublicArts |-> req[p].totalPublicArts,
                  totalPrivateArts |-> req[p].totalPrivateArts,
                  totalReportedArts |-> req[p].totalReportedArts]))
    /\ UNCHANGED <<arts, favorites, reports, users, ids, now>>

(***************************************************************************)
(* A store call that throws outside a best-effort block: the handler's     *)
(* catch answers 500.                                                      *)
(***************************************************************************)
FailPoints ==
    {"like_find", "unlike_update", "unlike_find", "favorite_insert", "list_count",
     "favorites_arts", "stats_public", "stats_private", "stats_fallback",
     "stats_rest"}

StoreError(p) ==
    /\ pc[p] \in FailPoints
    /\ Reply(p, Response(req[p].op, req[p].id, 500, [error |-> "Internal server error"]))
    /\ UNCHANGED <<arts, favorites, reports, users, ids, now>>


(***************************************************************************)
(* The steps of one request process.                                       *)
(***************************************************************************)
\* The artwork of the specification's example scenario.
PlainArt == [title |-> Title, image |-> Image, userName |-> UserName,
             userEmail |-> EmailMixed]

\* PATCH bodies that try to set the protected fields.
ProtectedBodies == ProtectedFields \ {<<>>}

CreateSyncStep(p) ==
    \/ CreateSync(p)
    \/ CreateSyncFails(p)

DeleteStep(p) ==
    \/ \E id \in IdInputs : DeleteOne(p, id)
    \/ DeleteFavorites(p)
    \/ DeleteReports(p)
    \/ DeleteCascadeFails(p)

FavoriteStep(p) ==
    \/ \E body \in FavoriteBodies : AddFavoriteFind(p, body)
    \/ AddFavoriteInsert(p)
    \/ \E id \in FavoriteIdInputs : RemoveFavorite(p, id)
    \/ \E email \in EmailInputs \cup {Undefined} : ListFavoritesFind(p, email)
    \/ ListFavoritesJoin(p)

ReportStep(p) ==
    \/ \E report \in ReportBodies : SubmitReport(p, report)
    \/ \E id \in ReportIdInputs : ResolveReport(p, id)

UserStep(p) ==
    \/ \E user \in UserBodies : SyncOnLogin(p, user)
    \/ \E id \in UserIdInputs, role \in RoleInputs : SetRole(p, id, role)
    \/ \E id \in UserIdInputs : DeleteUser(p, id)

\* Queries of GET /arts: every combination of the optional filters, and a
\* page and a limit or none.
ListQueries ==
    { Defined([category |-> c, artistEmail |-> ae, userEmail |-> ue, search |-> s]) @@ pl :
        c \in {Undefined, Oil},
        ae \in {Undefined, EmailMixed},
        ue \in {Undefined, EmailMixed},
        s \in {Undefined, <<"s","U","n">>},
        pl \in {<<>>, [page |-> 1, limit |-> 1]} }

ListStep(p) ==
    \/ \E q \in ListQueries : ListFind(p, q)
    \/ ListCount(p)

StatsStep(p) ==
    \/ StatsUsers(p)
    \/ StatsPublic(p)
    \/ StatsPrivate(p)
    \/ StatsReported(p)
    \/ StatsDistinctFails(p)
    \/ StatsFallback(p)
    \/ StatsReply(p)

Step(p) ==
    \/ \E art \in CreateBodies, updated \in {now, now + 1} : CreateInsert(p, art, updated)
    \/ CreateSyncStep(p)
    \/ \E id \in IdInputs, body \in UpdateBodies : Update(p, id, body)
    \/ \E id \in IdInputs : LikeUpdate(p, id)
    \/ LikeFind(p)
    \/ \E id \in IdInputs : UnlikeFind(p, id)
    \/ UnlikeUpdate(p)
    \/ UnlikeRead(p)
    \/ DeleteStep(p)
    \/ FavoriteStep(p)
    \/ ReportStep(p)
    \/ UserStep(p)
    \/ ListStep(p)
    \/ StatsStep(p)
    \/ StoreError(p)

\* The whole server.
Next ==
    \/ \E p \in Procs : Step(p) /\ UNCHANGED obs
    \/ Tick /\ UNCHANGED obs

Spec == Init /\ [][Next]_vars

(***************************************************************************)
(* Observers.  obs records what a property speaks of and the store does    *)
(* not keep.  No handler reads it but for obs.watch in Reply and Goto.     *)
(*   base, done  per artwork, the likes at the last moment no Like, Unlike *)
(*               or Delete was in flight on it right after a request other *)
(*               than a successful Like ran on it (or after it was         *)
(*               created), and the Likes answered 200 since (SpecLikes);   *)
(*   log         the last two requests of a client that sends one request  *)
(*               at a time, each with the likes of its artwork before and  *)
(*               after and whether the store changed (SpecSolo).           *)
(***************************************************************************)
NoArt == 0 - 100

LikesAt(coll, id) == IF id \in DOMAIN coll THEN coll[id].likes ELSE NoArt

BaseOf(id) == IF id \in DOMAIN obs.base THEN obs.base[id] ELSE NoArt

DoneOf(id) == IF id \in DOMAIN obs.done THEN obs.done[id] ELSE 0

\* The Likes on the artwork id that have incremented and are not answered yet.
InFlight(id) == Cardinality({p \in Procs : pc[p] = "like_find" /\ req[p].id = id})

\* After this step no Like, Unlike or Delete is in flight on the artwork id.
QuietAfter(id) ==
    \A p \in Procs : pc'[p] \in {"idle", "create_sync"} \/ req'[p].id # id

\* The observer after a step in which `disturbed` are the artworks a request
\* other than a successful Like ran on, and `answered` those a Like on which
\* was answered 200.
Watch(disturbed, answered) ==
    LET counting(a) == BaseOf(a) # NoArt /\ a \notin disturbed
    IN  [obs EXCEPT
           !.base = [a \in DOMAIN arts' |->
                        IF counting(a) THEN BaseOf(a)
                        ELSE IF QuietAfter(a) THEN arts'[a].likes ELSE NoArt],
           !.done = [a \in DOMAIN arts' |->
                        IF counting(a)
                        THEN DoneOf(a) + IF a \in answered THEN 1 ELSE 0
                        ELSE 0]]

LastTwo(log) == IF Len(log) > 2 THEN SubSeq(log, Len(log) - 1, Len(log)) ELSE log

\* The client of p sees its request start or end in this step.
SoloObs(p) ==
    LET id == IF pc'[p] = "idle" THEN resp'[p].id ELSE req'[p].id
        before == IF pc[p] = "idle" THEN LikesAt(arts, id) ELSE obs.before
        dirty == (pc[p] # "idle" /\ obs.dirty) \/ store' # store
    IN  IF pc'[p] = "idle"
        THEN [obs EXCEPT !.before = 0,
                         !.dirty = FALSE,
                         !.log = LastTwo(Append(@,
                                   [op |-> resp'[p].op, id |-> id,
                                    status |-> resp'[p].status, body |-> resp'[p].body,
                                    before |-> before,
                                    after |-> LikesAt(arts', id),
                                    changed |-> dirty]))]
        ELSE [obs EXCEPT !.before = before, !.dirty = dirty]

(***************************************************************************)
(* The server restricted to the requests a group of properties speaks of.  *)
(* A handler left out of a group writes none of the state the group's      *)
(* properties read.                                                        *)
(***************************************************************************)
\* Concurrent requests on the like counters.
NextLikes ==
    \E p \in Procs :
        \/ CreateInsert(p, PlainArt, now) /\ obs' = Watch({}, {})
        \/ CreateSync(p) /\ obs' = Watch({}, {})
        \/ CreateSyncFails(p) /\ obs' = Watch({}, {})
        \/ \E id \in IdInputs, body \in ProtectedBodies :
               Update(p, id, body) /\ obs' = Watch({id}, {})
        \/ \E id \in IdInputs : LikeUpdate(p, id) /\ obs' = Watch({}, {})
        \/ LikeFind(p) /\ obs' = Watch({}, {req[p].id})
        \/ \E id \in IdInputs : UnlikeFind(p, id) /\ obs' = Watch({id}, {})
        \/ UnlikeUpdate(p) /\ obs' = Watch({req[p].id}, {})
        \/ UnlikeRead(p) /\ obs' = Watch({req[p].id}, {})
        \/ \E id \in IdInputs : DeleteOne(p, id) /\ obs' = Watch({id}, {})
        \/ DeleteFavorites(p) /\ obs' = Watch({req[p].id}, {})
        \/ DeleteReports(p) /\ obs' = Watch({req[p].id}, {})
        \/ DeleteCascadeFails(p) /\ obs' = Watch({req[p].id}, {})
        \/ StoreError(p) /\ obs' = Watch({req[p].id}, {})

SpecLikes == Init /\ [][NextLikes]_vars

\* Create and Update with every form of their inputs.
NextArtworks ==
    \E p \in Procs :
        \/ \E art \in CreateBodies : CreateInsert(p, art, now) /\ UNCHANGED obs
        \/ CreateSync(p) /\ UNCHANGED obs
        \/ CreateSyncFails(p) /\ UNCHANGED obs
        \/ \E id \in IdInputs, body \in UpdateBodies :
               Update(p, id, body) /\ UNCHANGED obs

SpecArtworks == Init /\ [][NextArtworks]_vars

\* Concurrent requests on the favorites and the reports, and the deletion
\* of the artworks they point to.
NextCascade ==
    \E p \in Procs :
        \/ CreateInsert(p, PlainArt, now) /\ UNCHANGED obs
        \/ CreateSync(p) /\ UNCHANGED obs
        \/ CreateSyncFails(p) /\ UNCHANGED obs
        \/ \E id \in IdInputs : DeleteOne(p, id) /\ UNCHANGED obs
        \/ DeleteFavorites(p) /\ UNCHANGED obs
        \/ DeleteReports(p) /\ UNCHANGED obs
        \/ DeleteCascadeFails(p) /\ UNCHANGED obs
        \/ \E body \in FavoriteBodies : AddFavoriteFind(p, body) /\ UNCHANGED obs
        \/ AddFavoriteInsert(p) /\ UNCHANGED obs
        \/ \E id \in FavoriteIdInputs : RemoveFavorite(p, id) /\ UNCHANGED obs
        \/ \E report \in ReportBodies : SubmitReport(p, report) /\ UNCHANGED obs
        \/ \E id \in ReportIdInputs : ResolveReport(p, id) /\ UNCHANGED obs
        \/ StoreError(p) /\ UNCHANGED obs

SpecCascade == Init /\ [][NextCascade]_vars

\* Concurrent requests on the users, with the clock running.
NextUsers ==
    \/ \E p \in Procs :
        \/ CreateInsert(p, PlainArt, now) /\ UNCHANGED obs
        \/ CreateSync(p) /\ UNCHANGED obs
        \/ CreateSyncFails(p) /\ UNCHANGED obs
        \/ \E user \in UserBodies : SyncOnLogin(p, user) /\ UNCHANGED obs
        \/ \E id \in UserIdInputs, role \in RoleInputs :
               SetRole(p, id, role) /\ UNCHANGED obs
        \/ \E id \in UserIdInputs : DeleteUser(p, id) /\ UNCHANGED obs
    \/ Tick /\ UNCHANGED obs

SpecUsers == Init /\ [][NextUsers]_vars

\* One client that waits for each answer before its next request.
InitSolo ==
    /\ arts = <<>>
    /\ favorites = <<>>
    /\ reports = <<>>
    /\ users = <<>>
    /\ ids = [art |-> 0, favorite |-> 0, report |-> 0, user |-> 0]
    /\ now = 0
    /\ pc = [p \in Procs |-> "idle"]
    /\ req = [p \in Procs |-> NoRequest]
    /\ resp = [p \in Procs |-> NoResponse]
    /\ obs = [watch |-> TRUE, base |-> <<>>, done |-> <<>>, before |-> 0,
              dirty |-> FALSE, log |-> <<>>]

NextSolo ==
    \/ CreateInsert(1, PlainArt, now) /\ obs' = SoloObs(1)
    \/ CreateSync(1) /\ obs' = SoloObs(1)
    \/ CreateSyncFails(1) /\ obs' = SoloObs(1)
    \/ \E id \in IdInputs, body \in ProtectedBodies :
           Update(1, id, body) /\ obs' = SoloObs(1)
    \/ \E id \in IdInputs : LikeUpdate(1, id) /\ obs' = SoloObs(1)
    \/ LikeFind(1) /\ obs' = SoloObs(1)
    \/ \E id \in IdInputs : UnlikeFind(1, id) /\ obs' = SoloObs(1)
    \/ UnlikeUpdate(1) /\ obs' = SoloObs(1)
    \/ UnlikeRead(1) /\ obs' = SoloObs(1)
    \/ \E id \in IdInputs : DeleteOne(1, id) /\ obs' = SoloObs(1)
    \/ DeleteFavorites(1) /\ obs' = SoloObs(1)
    \/ DeleteReports(1) /\ obs' = SoloObs(1)
    \/ DeleteCascadeFails(1) /\ obs' = SoloObs(1)

SpecSolo == InitSolo /\ [][NextSolo]_vars


(***************************************************************************)
(* Properties of the like counter.                                         *)
(***************************************************************************)
\* C1: under any interleaving of concurrent Create, Update, Like and Unlike
\* requests, the likes counter of every artwork is at least 0.
LikesNeverNegative == \A a \in DOMAIN arts : arts[a].likes >= 0

\* C8: Like loses no update.  While nothing but Likes that succeed runs on an
\* artwork, its counter is the value it started from plus the number of Likes
\* answered 200, plus the Likes that have incremented and are not answered
\* yet; so N Likes that have all completed leave it exactly N higher.
LikeLosesNoUpdate ==
    \A a \in DOMAIN arts :
        BaseOf(a) # NoArt => arts[a].likes = BaseOf(a) + DoneOf(a) + InFlight(a)

\* Two Likes have completed on an artwork whose counter did not start from 0.
LikeLosesNoUpdateWitness ==
    \E a \in DOMAIN arts :
        /\ BaseOf(a) > 0
        /\ DoneOf(a) = 2
        /\ InFlight(a) = 0
        /\ arts[a].likes = BaseOf(a) + 2

(***************************************************************************)
(* Properties of the favorites, the reports and the cascade of Delete.     *)
(***************************************************************************)
\* C2: under any interleaving of concurrent Add-favorite requests, no two
\* favorites have the same (artId, userEmail) pair.
NoDuplicateFavorite ==
    \A f, g \in DOMAIN favorites :
        f # g => \/ favorites[f].artId # favorites[g].artId
                 \/ favorites[f].userEmail # favorites[g].userEmail

\* The artwork id a step of DELETE /arts/:id by p is about.
DeleteTarget(p) == IF pc[p] = "idle" THEN req'[p].id ELSE req[p].id

Referencing(coll, id) ==
    {i \in DOMAIN coll : coll[i].artId = NewObjectId(id)}

\* C3: once Delete(id) has removed the artwork and its favorites cascade has
\* run without a store failure, no favorite references the artwork id,
\* however many did before.
DeleteLeavesNoFavorite ==
    [][\A p \in Procs :
          (DeleteFavorites(p) /\ req[p].deletedCount = 1)
          => Referencing(favorites', req[p].id) = {}]_vars

\* C4: once the reports cascade of Delete(id) has run without a store
\* failure, which is when Delete completes, no report references the artwork
\* id, however many did before.
DeleteLeavesNoReport ==
    [][\A p \in Procs :
          DeleteReports(p) => Referencing(reports', req[p].id) = {}]_vars

\* A Delete is about to cascade to two reports that reference its artwork.
DeleteLeavesNoReportWitness ==
    \E p \in Procs :
        /\ pc[p] = "delete_reports"
        /\ req[p].deletedCount = 1
        /\ Cardinality(Referencing(reports, req[p].id)) = 2

\* What is in coll and not about the artwork id stays as it is, and nothing
\* is added.
Untouched(coll, after, id) ==
    /\ DOMAIN after \subseteq DOMAIN coll
    /\ \A i \in DOMAIN coll :
          coll[i].artId # NewObjectId(id) => i \in DOMAIN after /\ after[i] = coll[i]

\* C5: every step of Delete(id) leaves unchanged every other artwork, every
\* favorite and report whose artId is not id, and every user.
DeleteFrame ==
    [][\A p \in Procs :
          (\/ \E id \in IdInputs : DeleteOne(p, id)
           \/ DeleteFavorites(p)
           \/ DeleteReports(p)
           \/ DeleteCascadeFails(p))
          => /\ DOMAIN arts' \subseteq DOMAIN arts
             /\ \A a \in DOMAIN arts \ {DeleteTarget(p)} :
                   a \in DOMAIN arts' /\ arts'[a] = arts[a]
             /\ Untouched(favorites, favorites', DeleteTarget(p))
             /\ Untouched(reports, reports', DeleteTarget(p))
             /\ users' = users]_vars

\* A Delete of an artwork that had a report is about to finish while another
\* artwork, a favorite and a report of that other artwork, and a user exist.
DeleteFrameWitness ==
    \E p \in Procs :
        /\ pc[p] = "delete_reports"
        /\ req[p].deletedCount = 1
        /\ Referencing(reports, req[p].id) # {}
        /\ \E a \in DOMAIN arts :
              /\ a # req[p].id
              /\ Referencing(reports, a) # {}
              /\ Referencing(favorites, a) # {}
        /\ users # <<>>

(***************************************************************************)
(* Properties of Create and Update.                                        *)
(***************************************************************************)
\* C6: after any sequence of Create and Update calls with any visibility
\* input, every stored artwork's visibility is exactly "Public" or "Private".
VisibilityCanonical ==
    \A a \in DOMAIN arts : arts[a].visibility \in {Public, Private}

(***************************************************************************)
(* Properties of the user directory.                                       *)
(***************************************************************************)
\* C7: a profile sync (POST /users, or the author upsert of POST /arts)
\* leaves the role and the createdAt of every existing user unchanged, and
\* the user it creates has role "User" and createdAt set to the current time.
SyncKeepsRole ==
    [][\A p \in Procs :
          (\/ \E user \in UserBodies : SyncOnLogin(p, user)
           \/ CreateSync(p))
          => /\ \A u \in DOMAIN users :
                   /\ u \in DOMAIN users'
                   /\ users'[u].role = users[u].role
                   /\ users'[u].createdAt = users[u].createdAt
             /\ \A u \in DOMAIN users' \ DOMAIN users :
                   /\ users'[u].role = User
                   /\ users'[u].createdAt = now]_vars

\* An Admin created at time 0 whose profile was synced by POST /users at
\* time 1.
SyncKeepsRoleWitness ==
    \E u \in DOMAIN users :
        /\ users[u].role = Admin
        /\ users[u].createdAt = 0
        /\ "lastLogin" \in DOMAIN users[u]
        /\ users[u].lastLogin = 1

(***************************************************************************)
(* Properties of Like and Unlike for one client at a time.                 *)
(***************************************************************************)
Entries == {obs.log[i] : i \in DOMAIN obs.log}

\* C9: with no other request running, Like then Unlike on an existing
\* artwork with likes = k both succeed, leave likes = k, and the Unlike
\* answers k.
LikeThenUnlike ==
    /\ \A e \in Entries :
          (e.op = "like" /\ e.before # NoArt)
          => e.status = 200 /\ e.after = e.before + 1
    /\ Len(obs.log) = 2 =>
          LET like == obs.log[1]
              unlike == obs.log[2]
          IN  (/\ like.op = "like"
               /\ like.before # NoArt
               /\ unlike.op = "unlike"
               /\ unlike.id = like.id)
              => /\ unlike.status = 200
                 /\ unlike.body = [likes |-> like.before]
                 /\ unlike.after = like.before

\* Like then Unlike on an artwork that had one like.
LikeThenUnlikeWitness ==
    /\ Len(obs.log) = 2
    /\ obs.log[1].op = "like"
    /\ obs.log[1].before = 1
    /\ obs.log[2].op = "unlike"
    /\ obs.log[2].id = obs.log[1].id
    /\ obs.log[2].status = 200

\* C10: with no other request running, Unlike on an existing artwork whose
\* likes is 0 fails with 400 and leaves the counter at 0, and Unlike on a
\* well-formed id of no artwork fails with 404; both change nothing.
UnlikeAtZero ==
    \A e \in Entries :
        e.op = "unlike" =>
            /\ e.before = 0 => e.status = 400 /\ e.after = 0 /\ ~e.changed
            /\ (e.before = NoArt /\ ObjectIdIsValid(e.id))
                  => e.status = 404 /\ ~e.changed

\* An Unlike took the counter from 1 to 0 and the next Unlike was refused.
UnlikeAtZeroWitness ==
    /\ Len(obs.log) = 2
    /\ obs.log[1].op = "unlike"
    /\ obs.log[1].status = 200
    /\ obs.log[1].before = 1
    /\ obs.log[2].op = "unlike"
    /\ obs.log[2].id = obs.log[1].id
    /\ obs.log[2].status = 400
    /\ obs.log[2].after = 0

\* An Unlike on the id of a deleted artwork was answered 404.
UnlikeMissingWitness ==
    \E e \in Entries :
        e.op = "unlike" /\ e.before = NoArt /\ ObjectIdIsValid(e.id) /\ e.status = 404

(***************************************************************************)
(* Properties of Add-favorite for one client at a time.                    *)
(***************************************************************************)
\* The favorites whose (artId, userEmail) is the pair of a POST /favorites.
PairCount(coll, artId, userEmail) ==
    Cardinality({f \in DOMAIN coll :
                    /\ Field(coll[f], "artId") = NewObjectId(artId)
                    /\ Field(coll[f], "userEmail") = userEmail})

\* The client of p sees its POST /favorites on (artId, userEmail) start or end.
FavoriteObs(p, artId, userEmail) ==
    LET before == IF pc[p] = "idle"
                  THEN PairCount(favorites, artId, userEmail) ELSE obs.before
        dirty == (pc[p] # "idle" /\ obs.dirty) \/ store' # store
    IN  IF pc'[p] = "idle"
        THEN [obs EXCEPT !.before = 0,
                         !.dirty = FALSE,
                         !.log = LastTwo(Append(@,
                                   [op |-> "favorite", id |-> artId,
                                    userEmail |-> userEmail,
                                    status |-> resp'[p].status,
                                    before |-> before,
                                    after |-> PairCount(favorites', artId, userEmail),
                                    changed |-> dirty]))]
        ELSE [obs EXCEPT !.before = before, !.dirty = dirty]

\* The client of p sees its DELETE /favorites/:id answered.
UnfavoriteObs(p, id) ==
    [obs EXCEPT !.log = LastTwo(Append(@,
                          [op |-> "unfavorite", id |-> id, userEmail |-> Undefined,
                           status |-> resp'[p].status, before |-> 0, after |-> 0,
                           changed |-> store' # store]))]

\* The artId of a POST /favorites body; a body with no artId is answered as
\* one with no id.
ArtIdOf(body) == IF "artId" \in DOMAIN body THEN body.artId ELSE BadId

\* One client adding and removing favorites, one request at a time.
NextSoloFavorites ==
    \/ \E body \in FavoriteBodies :
           AddFavoriteFind(1, body)
           /\ obs' = FavoriteObs(1, ArtIdOf(body), Field(body, "userEmail"))
    \/ AddFavoriteInsert(1) /\ obs' = FavoriteObs(1, req[1].id, req[1].userEmail)
    \/ \E id \in FavoriteIdInputs : RemoveFavorite(1, id) /\ obs' = UnfavoriteObs(1, id)

SpecSoloFavorites == InitSolo /\ [][NextSoloFavorites]_vars

\* C11: adding the same (artId, userEmail) favorite twice in sequence: the
\* first call, on a pair not yet stored, answers 201 and stores one favorite;
\* the second answers 409 and inserts nothing, so exactly one favorite with
\* that pair exists afterwards.
AddFavoriteTwice ==
    /\ \A e \in Entries :
          (/\ e.op = "favorite"
           /\ ObjectIdIsValid(e.id)
           /\ Truthy(e.userEmail)
           /\ e.before = 0)
          => e.status = 201 /\ e.after = 1
    /\ Len(obs.log) = 2 =>
          LET first == obs.log[1]
              second == obs.log[2]
          IN  (/\ first.op = "favorite"
               /\ first.status = 201
               /\ second.op = "favorite"
               /\ second.id = first.id
               /\ second.userEmail = first.userEmail)
              => /\ second.status = 409
                 /\ ~second.changed
                 /\ second.after = 1

\* The same pair was added twice in a row and the second call was refused.
AddFavoriteTwiceWitness ==
    /\ Len(obs.log) = 2
    /\ obs.log[1].op = "favorite"
    /\ obs.log[1].status = 201
    /\ obs.log[2].op = "favorite"
    /\ obs.log[2].id = obs.log[1].id
    /\ obs.log[2].userEmail = obs.log[1].userEmail
    /\ obs.log[2].status = 409
    /\ PairCount(favorites, obs.log[2].id, obs.log[2].userEmail) = 1

(***************************************************************************)
(* Properties of the public list.                                          *)
(***************************************************************************)
\* Bodies of POST /arts with and without a category, Public and Private.
ListedBodies ==
    { Defined([title |-> Title, image |-> Image, userName |-> UserName,
               userEmail |-> EmailMixed, visibility |-> v, category |-> c]) :
        v \in {Undefined, <<"p","r","i","v","a","t","e">>},
        c \in {Undefined, Oil} }

\* One client that creates, updates and lists artworks.
NextList ==
    \/ \E art \in ListedBodies : CreateInsert(1, art, now) /\ UNCHANGED obs
    \/ CreateSync(1) /\ UNCHANGED obs
    \/ CreateSyncFails(1) /\ UNCHANGED obs
    \/ \E id \in IdInputs, body \in UpdateBodies : Update(1, id, body) /\ UNCHANGED obs
    \/ \E q \in ListQueries : ListFind(1, q) /\ UNCHANGED obs
    \/ ListCount(1) /\ UNCHANGED obs

SpecList == InitSolo /\ [][NextList]_vars

\* C12: whatever the store holds and whatever optional filters the query
\* names (category, author email, search text, or none), every artwork a
\* public List returns has visibility "Public".
ListOnlyPublic ==
    \A p \in Procs :
        (resp[p].op = "list" /\ resp[p].status = 200)
        => \A i \in DOMAIN resp[p].body.data :
              resp[p].body.data[i].visibility = Public

\* A List answered with the one Public artwork of a store that also holds a
\* Private one.
ListOnlyPublicWitness ==
    /\ resp[1].op = "list"
    /\ resp[1].status = 200
    /\ Len(resp[1].body.data) = 1
    /\ resp[1].body.total = 1
    /\ \E a \in DOMAIN arts :
          /\ arts[a].visibility = Private
          /\ arts[a].category = resp[1].body.data[1].category

(***************************************************************************)
(* Properties of pagination.  GET /arts reads the store and writes         *)
(* nothing, so its pages are checked from every store of up to MaxListed   *)
(* artworks that Create leaves: Public or Private, created at times that   *)
(* do not decrease, some of them equal.                                    *)
(***************************************************************************)
MaxListed == 4
MaxPageTime == 2
MaxPage == 3

PagedDocs ==
    { ArtDoc(PlainArt @@ v, t, t) :
        v \in {<<>>, [visibility |-> <<"p","r","i","v","a","t","e">>]},
        t \in 0..MaxPageTime }

PagedStores ==
    UNION { {s \in [1..n -> PagedDocs] :
                \A i, j \in 1..n : i < j => s[i].createdAt <= s[j].createdAt} :
            n \in 0..MaxListed }

\* Queries of GET /arts that name a page and a limit, or neither.
PageQueries ==
    {[page |-> p, limit |-> l] : p \in 0..MaxPage, l \in 0..MaxPage} \cup {<<>>}

InitPages ==
    /\ arts \in PagedStores
    /\ favorites = <<>>
    /\ reports = <<>>
    /\ users = <<>>
    /\ ids = [art |-> Len(arts), favorite |-> 0, report |-> 0, user |-> 0]
    /\ now = MaxPageTime
    /\ pc = [p \in Procs |-> "idle"]
    /\ req = [p \in Procs |-> NoRequest]
    /\ resp = [p \in Procs |-> NoResponse]
    /\ obs = [watch |-> TRUE, base |-> <<>>, done |-> <<>>, before |-> 0,
              dirty |-> FALSE, log |-> <<>>]

NextPages ==
    \/ \E q \in PageQueries : ListFind(1, q) /\ UNCHANGED obs
    \/ ListCount(1) /\ UNCHANGED obs

SpecPages == InitPages /\ [][NextPages]_vars

\* The Public artworks: the filtered set of a query with no filter.
PublicArts == {a \in DOMAIN arts : arts[a].visibility = Public}

\* C13: for page p >= 1 and limit l >= 1, List returns exactly the items at
\* positions (p-1)*l+1 .. min(p*l, T) of the filtered set ordered newest
\* first by createdAt, and the returned total is T, the size of the whole
\* filtered set, whatever p and l are.  The page is a run of distinct stored
\* Public artworks in newest-first order, of the length of that range, with
\* min((p-1)*l, T) of the others no older than it and the rest no newer.
ListPage ==
    (resp[1].op = "list" /\ resp[1].status = 200 /\ resp[1].body.page >= 1) =>
        LET data == resp[1].body.data
            p == resp[1].body.page
            l == resp[1].body.limit
            T == Cardinality(PublicArts)
            shown == {data[i]._id : i \in DOMAIN data}
            others == PublicArts \ shown
        IN  /\ resp[1].body.total = T
            /\ Len(data) = Max(0, Min(p * l, T) - (p - 1) * l)
            /\ Cardinality(shown) = Len(data)
            /\ shown \subseteq PublicArts
            /\ \A i \in DOMAIN data :
                  data[i] = SetFields(arts[data[i]._id], [_id |-> data[i]._id])
            /\ \A i, j \in DOMAIN data :
                  i < j => data[i].createdAt >= data[j].createdAt
            /\ \E newer \in SUBSET others :
                  /\ Cardinality(newer) = Min((p - 1) * l, T)
                  /\ \A b \in newer, i \in DOMAIN data :
                        arts[b].createdAt >= data[i].createdAt
                  /\ \A c \in others \ newer, i \in DOMAIN data :
                        arts[c].createdAt <= data[i].createdAt

\* Page 2 of limit 1 on three Public artworks, with a Private one in the
\* store: a full page with items before it and after it.
ListPageWitness ==
    /\ resp[1].op = "list"
    /\ resp[1].body.page = 2
    /\ resp[1].body.limit = 1
    /\ resp[1].body.total = 3
    /\ Len(resp[1].body.data) = 1
    /\ \E a \in DOMAIN arts : arts[a].visibility = Private
    /\ \E a, b \in PublicArts : arts[a].createdAt # arts[b].createdAt

(***************************************************************************)
(* Properties of what Create stores.                                       *)
(***************************************************************************)
\* Concurrent Creates with every form of their inputs, the clock running.
NextCreate ==
    \/ \E p \in Procs :
        \/ \E art \in CreateBodies, updated \in {now, now + 1} :
               CreateInsert(p, art, updated) /\ UNCHANGED obs
        \/ CreateSync(p) /\ UNCHANGED obs
        \/ CreateSyncFails(p) /\ UNCHANGED obs
    \/ Tick /\ UNCHANGED obs

SpecCreate == Init /\ [][NextCreate]_vars

\* C14: for every valid Create input, the stored artwork, which is the one
\* returned, has likes = 0, visibility "Public" or "Private", and createdAt
\* equal to updatedAt.
CreateDefaults ==
    \A a \in DOMAIN arts :
        /\ arts[a].likes = 0
        /\ arts[a].visibility \in {Public, Private}
        /\ arts[a].createdAt = arts[a].updatedAt

(***************************************************************************)
(* Properties of requests on ids that match nothing.                       *)
(***************************************************************************)
\* C15: with no other request running, Update on a well-formed id that
\* matches no stored artwork fails with 404 and changes no stored state.
UpdateMissing ==
    \A e \in Entries :
        (e.op = "update" /\ ObjectIdIsValid(e.id) /\ e.before = NoArt)
        => e.status = 404 /\ ~e.changed

(***************************************************************************)
(* Properties of SetRole for one client at a time.                         *)
(***************************************************************************)
\* One client of the user directory, one request at a time.
NextSoloUsers ==
    \/ CreateInsert(1, PlainArt, now) /\ UNCHANGED obs
    \/ CreateSync(1) /\ UNCHANGED obs
    \/ CreateSyncFails(1) /\ UNCHANGED obs
    \/ \E user \in UserBodies : SyncOnLogin(1, user) /\ UNCHANGED obs
    \/ \E id \in UserIdInputs, role \in RoleInputs :
           SetRole(1, id, role) /\ UNCHANGED obs
    \/ \E id \in UserIdInputs : DeleteUser(1, id) /\ UNCHANGED obs

SpecSoloUsers == InitSolo /\ [][NextSoloUsers]_vars

\* role is admin or user in some casing, spaces around it or not.
NamesRole(role) ==
    /\ Truthy(role)
    /\ ToLowerCase(Trim(role)) \in {<<"a","d","m","i","n">>, <<"u","s","e","r">>}

\* C16: SetRole with a well-formed id that matches no stored user and a
\* valid role fails with 404 and changes no user record.
SetRoleMissing ==
    [][\A id \in UserIdInputs, role \in RoleInputs :
          (/\ SetRole(1, id, role)
           /\ ObjectIdIsValid(id)
           /\ id \notin DOMAIN users
           /\ NamesRole(role))
          => resp'[1].status = 404 /\ users' = users]_vars

\* C17: after any sequence of SyncOnLogin, Create and SetRole calls every
\* user's role is exactly "User" or "Admin": SetRole stores "Admin" or "User"
\* for any casing of admin or user, and rejects every other value with 400,
\* leaving the users as they were.
RolesCanonical ==
    [][/\ \A u \in DOMAIN users' : users'[u].role \in {Admin, User}
       /\ \A id \in UserIdInputs, role \in RoleInputs :
             (SetRole(1, id, role) /\ ObjectIdIsValid(id))
             => IF NamesRole(role)
                THEN id \in DOMAIN users
                     => users'[id].role =
                           IF ToLowerCase(Trim(role)) = <<"a","d","m","i","n">>
                           THEN Admin ELSE User
                ELSE resp'[1].status = 400 /\ users' = users]_vars

\* A synced user that SetRole raised to Admin, and a later SetRole on that
\* user refused for its role.
RolesCanonicalWitness ==
    /\ resp[1].op = "setRole"
    /\ resp[1].status = 400
    /\ resp[1].id \in DOMAIN users
    /\ users[resp[1].id].role = Admin
    /\ "lastLogin" \in DOMAIN users[resp[1].id]

\* C18: under any interleaving of SyncOnLogin calls and the user-sync upserts
\* of Create, at most one user record exists per email.
OneUserPerEmail ==
    \A u, w \in DOMAIN users : u # w => users[u].email # users[w].email

\* A user that both a SyncOnLogin and the user sync of a Create wrote to,
\* while a Create of the same author is still before its user sync.
OneUserPerEmailWitness ==
    \E u \in DOMAIN users :
        /\ "lastLogin" \in DOMAIN users[u]
        /\ "displayName" \in DOMAIN users[u]
        /\ \E p \in Procs :
              pc[p] = "create_sync" /\ req[p].doc.userEmail = users[u].email

(***************************************************************************)
(* Properties of Submit-report for one client at a time.                   *)
(***************************************************************************)
\* One client that reports artworks, resolves reports, and creates and
\* deletes the artworks reported, one request at a time.
NextSoloReports ==
    \/ CreateInsert(1, PlainArt, now) /\ UNCHANGED obs
    \/ CreateSync(1) /\ UNCHANGED obs
    \/ CreateSyncFails(1) /\ UNCHANGED obs
    \/ \E id \in IdInputs : DeleteOne(1, id) /\ UNCHANGED obs
    \/ DeleteFavorites(1) /\ UNCHANGED obs
    \/ DeleteReports(1) /\ UNCHANGED obs
    \/ DeleteCascadeFails(1) /\ UNCHANGED obs
    \/ \E report \in ReportBodies : SubmitReport(1, report) /\ UNCHANGED obs
    \/ \E id \in ReportIdInputs : ResolveReport(1, id) /\ UNCHANGED obs

SpecSoloReports == InitSolo /\ [][NextSoloReports]_vars

\* C19: Submit-report with artId, reporterEmail and reason all present and a
\* malformed artId, or with any of the three missing, fails with 400 and
\* stores no report.
SubmitReportInvalid ==
    [][\A report \in ReportBodies :
          (/\ SubmitReport(1, report)
           /\ \/ ~ObjectIdIsValid(ArtIdOf(report))
              \/ ~Truthy(Field(report, "reporterEmail"))
              \/ ~Truthy(Field(report, "reason")))
          => resp'[1].status = 400 /\ reports' = reports]_vars

(***************************************************************************)
(* Properties of the best-effort steps.                                    *)
(***************************************************************************)
\* C20: when the user-sync upsert of Create fails, Create still succeeds:
\* the artwork is stored and returned with status 201 and no user record is
\* changed; and a failure in the cascade of Delete leaves the Delete answered
\* 200 with the result of its deleteOne.
BestEffort ==
    [][/\ CreateSyncFails(1)
          => /\ resp'[1].status = 201
             /\ req[1].id \in DOMAIN arts'
             /\ resp'[1].body = SetFields(arts'[req[1].id], [_id |-> req[1].id])
             /\ users' = users
       /\ DeleteCascadeFails(1)
          => /\ resp'[1].status = 200
             /\ resp'[1].body = [deletedCount |-> req[1].deletedCount]]_vars

\* A Create answered 201 whose artwork is stored and whose author has no
\* user record: its user sync failed.
BestEffortWitness ==
    /\ resp[1].op = "create"
    /\ resp[1].status = 201
    /\ resp[1].id \in DOMAIN arts
    /\ \A u \in DOMAIN users : users[u].email # arts[resp[1].id].userEmail

(***************************************************************************)
(* Properties of what Update leaves alone.                                 *)
(***************************************************************************)
\* PATCH bodies: empty, one that changes the visibility, one that names the
\* protected fields, and one that names them and updatedAt itself.
StampBodies ==
    { <<>>,
      [visibility |-> <<"p","r","i","v","a","t","e">>],
      [likes |-> 0 - 5, createdAt |-> 0 - 1],
      [visibility |-> <<"p","r","i","v","a","t","e">>,
       likes |-> 0 - 5, createdAt |-> 0 - 1, updatedAt |-> 0 - 7] }

\* Concurrent Create, Like and Update requests, the clock running.
NextUpdate ==
    \/ \E p \in Procs :
        \/ CreateInsert(p, PlainArt, now) /\ UNCHANGED obs
        \/ CreateSync(p) /\ UNCHANGED obs
        \/ CreateSyncFails(p) /\ UNCHANGED obs
        \/ \E id \in IdInputs : LikeUpdate(p, id) /\ UNCHANGED obs
        \/ LikeFind(p) /\ UNCHANGED obs
        \/ \E id \in IdInputs, body \in StampBodies :
               Update(p, id, body) /\ UNCHANGED obs
    \/ Tick /\ UNCHANGED obs

SpecUpdate == Init /\ [][NextUpdate]_vars

\* C21: Update never changes the likes or the createdAt of an artwork,
\* whatever fields its body has, likes and createdAt included, and sets the
\* updatedAt of the artwork it matches to the current time.
UpdateKeepsProtected ==
    [][\A p \in Procs, id \in IdInputs, body \in StampBodies :
          Update(p, id, body)
          => /\ DOMAIN arts' = DOMAIN arts
             /\ \A a \in DOMAIN arts :
                   /\ arts'[a].likes = arts[a].likes
                   /\ arts'[a].createdAt = arts[a].createdAt
             /\ (ObjectIdIsValid(id) /\ id \in DOMAIN arts)
                   => arts'[id].updatedAt = now]_vars

\* An artwork created at time 0 and liked, then made Private by an Update at
\* time 1.
UpdateKeepsProtectedWitness ==
    \E a \in DOMAIN arts :
        /\ arts[a].likes >= 1
        /\ arts[a].createdAt = 0
        /\ arts[a].updatedAt = 1
        /\ arts[a].visibility = Private

(***************************************************************************)
(* Properties of the page and the limit of a List.                         *)
(***************************************************************************)
\* C22: for every integer page and limit, values <= 0 included, List skips
\* (page' - 1) * limit' items and returns at most limit' with
\* page' = max(1, page) and limit' = max(1, limit), and the page and limit
\* fields of the response are page' and limit'.
ListClamps ==
    [][/\ \A q \in PageQueries :
             ListFind(1, q)
             => LET skip == (Max(1, PageOf(q)) - 1) * Max(1, LimitOf(q))
                    T == Cardinality(PublicArts)
                IN  Len(req'[1].data) =
                        Max(0, Min(skip + Max(1, LimitOf(q)), T) - skip)
       /\ ListCount(1)
             => /\ resp'[1].body.page = Max(1, PageOf(req[1].query))
                /\ resp'[1].body.limit = Max(1, LimitOf(req[1].query))]_vars

(***************************************************************************)
(* Properties of the count a Like answers with.                            *)
(***************************************************************************)
\* The observer after p starts a Like on id: obs.base[p] is the counter of
\* the artwork right before the increment of that Like.
LikeObs(p, id) ==
    [obs EXCEPT !.base = [q \in DOMAIN obs.base \cup {p} |->
                             IF q = p THEN LikesAt(arts, id) ELSE obs.base[q]]]

\* Concurrent Like requests on any id, and Unlike and Delete requests on the
\* stored artworks, whose clients keep the answer.
NextLikeAnswer ==
    \E p \in Procs :
        \/ CreateInsert(p, PlainArt, now) /\ UNCHANGED obs
        \/ CreateSync(p) /\ UNCHANGED obs
        \/ CreateSyncFails(p) /\ UNCHANGED obs
        \/ \E id \in IdInputs : LikeUpdate(p, id) /\ obs' = LikeObs(p, id)
        \/ LikeFind(p) /\ UNCHANGED obs
        \/ \E id \in DOMAIN arts : UnlikeFind(p, id) /\ UNCHANGED obs
        \/ UnlikeUpdate(p) /\ UNCHANGED obs
        \/ UnlikeRead(p) /\ UNCHANGED obs
        \/ \E id \in DOMAIN arts : DeleteOne(p, id) /\ UNCHANGED obs
        \/ DeleteFavorites(p) /\ UNCHANGED obs
        \/ DeleteReports(p) /\ UNCHANGED obs
        \/ DeleteCascadeFails(p) /\ UNCHANGED obs

SpecLikeAnswer == InitSolo /\ [][NextLikeAnswer]_vars

\* C23: under any interleaving with concurrent Like, Unlike and Delete
\* requests on the same artwork, a Like answered 200 returns the counter
\* right before its own increment, plus 1.
LikeAnswersOwnCount ==
    \A p \in Procs :
        (resp[p].op = "like" /\ resp[p].status = 200)
        => resp[p].body.likes = obs.base[p] + 1

(***************************************************************************)
(* Properties of the list of a user's favorites.                           *)
(***************************************************************************)
\* One client that creates and deletes artworks, adds favorites and lists
\* them, the clock running.
NextFavoriteList ==
    \/ CreateInsert(1, PlainArt, now) /\ UNCHANGED obs
    \/ CreateSync(1) /\ UNCHANGED obs
    \/ CreateSyncFails(1) /\ UNCHANGED obs
    \/ \E body \in FavoriteBodies : AddFavoriteFind(1, body) /\ UNCHANGED obs
    \/ AddFavoriteInsert(1) /\ UNCHANGED obs
    \/ \E id \in IdInputs : DeleteOne(1, id) /\ UNCHANGED obs
    \/ DeleteFavorites(1) /\ UNCHANGED obs
    \/ DeleteReports(1) /\ UNCHANGED obs
    \/ DeleteCascadeFails(1) /\ UNCHANGED obs
    \/ \E email \in EmailInputs \cup {Undefined} :
           ListFavoritesFind(1, email) /\ UNCHANGED obs
    \/ ListFavoritesJoin(1) /\ UNCHANGED obs
    \/ Tick /\ UNCHANGED obs

SpecFavoriteList == InitSolo /\ [][NextFavoriteList]_vars

\* C24: the list of the favorites of an email is answered 200 with one entry
\* per favorite of that email, newest first by createdAt, each with the
\* artwork it references when that artwork is stored and null when it is not.
FavoritesJoined ==
    [][ListFavoritesJoin(1)
       => LET data == resp'[1].body
              mine == {f \in DOMAIN favorites :
                          favorites[f].userEmail = req[1].email}
          IN  /\ resp'[1].status = 200
              /\ Len(data) = Cardinality(mine)
              /\ {data[i].favoriteId : i \in DOMAIN data} = mine
              /\ \A i, j \in DOMAIN data :
                    i < j => data[i].createdAt >= data[j].createdAt
              /\ \A i \in DOMAIN data :
                    LET f == favorites[data[i].favoriteId]
                    IN  /\ data[i].createdAt = f.createdAt
                        /\ \A a \in DOMAIN arts :
                              f.artId = NewObjectId(a)
                              => data[i].art = SetFields(arts[a], [_id |-> a])
                        /\ (\A a \in DOMAIN arts : f.artId # NewObjectId(a))
                              => data[i].art = Null]_vars

\* A list of two favorites added at different times, the newer one with its
\* artwork and the older one of an artwork that was deleted.
FavoritesJoinedWitness ==
    /\ resp[1].op = "favorites"
    /\ resp[1].status = 200
    /\ Len(resp[1].body) = 2
    /\ resp[1].body[1].createdAt > resp[1].body[2].createdAt
    /\ resp[1].body[1].art # Null
    /\ resp[1].body[2].art = Null

(***************************************************************************)
(* Properties of the admin statistics.                                     *)
(***************************************************************************)
\* One client that creates, updates and deletes artworks, submits and
\* resolves reports, lists the public artworks and reads the statistics.
StatsArts ==
    {PlainArt, PlainArt @@ [visibility |-> <<"p","r","i","v","a","t","e">>]}

NextStats ==
    \/ \E art \in StatsArts : CreateInsert(1, art, now) /\ UNCHANGED obs
    \/ CreateSync(1) /\ UNCHANGED obs
    \/ CreateSyncFails(1) /\ UNCHANGED obs
    \/ \E id \in IdInputs, v \in VisibilityInputs :
           Update(1, id, [visibility |-> v]) /\ UNCHANGED obs
    \/ \E id \in IdInputs : DeleteOne(1, id) /\ UNCHANGED obs
    \/ DeleteFavorites(1) /\ UNCHANGED obs
    \/ DeleteReports(1) /\ UNCHANGED obs
    \/ DeleteCascadeFails(1) /\ UNCHANGED obs
    \/ \E report \in ReportBodies : SubmitReport(1, report) /\ UNCHANGED obs
    \/ \E id \in ReportIdInputs : ResolveReport(1, id) /\ UNCHANGED obs
    \/ ListFind(1, <<>>) /\ UNCHANGED obs
    \/ ListCount(1) /\ UNCHANGED obs
    \/ StatsUsers(1) /\ UNCHANGED obs
    \/ StatsPublic(1) /\ UNCHANGED obs
    \/ StatsPrivate(1) /\ UNCHANGED obs
    \/ StatsReported(1) /\ UNCHANGED obs
    \/ StatsDistinctFails(1) /\ UNCHANGED obs
    \/ StatsFallback(1) /\ UNCHANGED obs
    \/ StatsReply(1) /\ UNCHANGED obs

SpecStats == InitSolo /\ [][NextStats]_vars

\* C25: the statistics read totalReportedArts as the number of distinct
\* artworks the stored reports name, not the number of reports, in every
\* store state that Submit, Resolve and Delete of an artwork reach, and
\* answer 200 with the number read.  (When distinct throws, the fallback
\* reads the number of reports.)
StatsCountReportedArts ==
    [][/\ StatsReported(1)
          => req'[1].totalReportedArts =
                Cardinality({a \in IdInputs :
                               \E r \in DOMAIN reports :
                                  reports[r].artId = NewObjectId(a)})
       /\ StatsReply(1)
          => /\ resp'[1].status = 200
             /\ resp'[1].body.totalReportedArts = req[1].totalReportedArts]_vars

\* Statistics answered with one reported artwork while two reports of it
\* are stored, the distinct having been read.
StatsCountReportedArtsWitness ==
    /\ resp[1].op = "stats"
    /\ resp[1].status = 200
    /\ resp[1].body.totalReportedArts = 1
    /\ Cardinality(DOMAIN reports) = 2
    /\ \A r \in DOMAIN reports : reports[r].artId = NewObjectId(1)

(***************************************************************************)
(* Properties of the email filters of the public list.                     *)
(***************************************************************************)
EmailOther == <<"b","@","x">>

\* Bodies of POST /arts with the author's email in either casing and the
\* artist's email absent or in either casing.
AuthoredBodies ==
    { Defined([title |-> Title, image |-> Image, userName |-> UserName,
               userEmail |-> e, artistEmail |-> ae]) :
        e \in EmailInputs, ae \in EmailInputs \cup {Undefined} }

\* Queries of GET /arts that name one of the two email filters.
AuthorQueries ==
    { [artistEmail |-> e] : e \in EmailInputs \cup {EmailOther} }
    \cup { [userEmail |-> e] : e \in EmailInputs \cup {EmailOther} }

\* One client that creates artworks and lists them by email.
NextAuthorFilter ==
    \/ \E art \in AuthoredBodies : CreateInsert(1, art, now) /\ UNCHANGED obs
    \/ CreateSync(1) /\ UNCHANGED obs
    \/ CreateSyncFails(1) /\ UNCHANGED obs
    \/ \E q \in AuthorQueries : ListFind(1, q) /\ UNCHANGED obs
    \/ ListCount(1) /\ UNCHANGED obs

SpecAuthorFilter == InitSolo /\ [][NextAuthorFilter]_vars

\* C26: the email filters of List match exactly and without regard to
\* letter case: a List that names an email returns every Public artwork
\* created with that email in any casing, as author (userEmail) or as artist
\* (artistEmail), and no artwork created with a different email.
AuthorFilterIgnoresCase ==
    [][\A q \in AuthorQueries :
          ListFind(1, q)
          => LET found == {req'[1].data[i]._id : i \in DOMAIN req'[1].data}
                 f == CHOOSE f \in DOMAIN q : TRUE
             IN  \A a \in DOMAIN arts :
                    arts[a].visibility = Public
                    => (a \in found
                        <=> ToLowerCase(arts[a][f]) = ToLowerCase(q[f]))]_vars

(***************************************************************************)
(* Properties of the profile that the login sync stores.  POST /users      *)
(* keeps the display name in the field name of the record; the sync of     *)
(* POST /arts keeps the author's name in the field displayName.            *)
(***************************************************************************)
PhotoNew == <<"p","h","2">>

\* Bodies of POST /users as the admin guide gives them: email, displayName
\* and photoURL.
LoginBodies ==
    { Defined([email |-> e, displayName |-> d, photoURL |-> ph]) :
        e \in EmailInputs,
        d \in {DisplayName, UserName},
        ph \in {Undefined, Photo, PhotoNew} }

\* One client that logs in, creates artworks and deletes users.
NextLogin ==
    \/ \E user \in LoginBodies : SyncOnLogin(1, user) /\ UNCHANGED obs
    \/ CreateInsert(1, PlainArt, now) /\ UNCHANGED obs
    \/ CreateSync(1) /\ UNCHANGED obs
    \/ CreateSyncFails(1) /\ UNCHANGED obs
    \/ \E id \in UserIdInputs : DeleteUser(1, id) /\ UNCHANGED obs

SpecLogin == InitSolo /\ [][NextLogin]_vars

\* C27: after every SyncOnLogin with an email, a displayName and a
\* photoURL, whether it inserted the record or updated it, there is a user
\* record of that email, and every such record has the display name and the
\* photoURL of the call: its name is the displayName of the call, and so is
\* its displayName when it has one.
SyncSetsProfile ==
    [][\A user \in LoginBodies :
          SyncOnLogin(1, user)
          => /\ \E u \in DOMAIN users' : users'[u].email = user.email
             /\ \A u \in DOMAIN users' :
                   users'[u].email = user.email
                   => /\ Field(users'[u], "name") = user.displayName
                      /\ "displayName" \in DOMAIN users'[u]
                            => users'[u].displayName = user.displayName
                      /\ Field(users'[u], "photoURL") = Field(user, "photoURL")]_vars

(***************************************************************************)
(* Properties of the stored emails.                                        *)
(***************************************************************************)
\* One client that creates and updates artworks, logs in and adds
\* favorites, with emails in either casing.
NextEmails ==
    \/ \E art \in {PlainArt, PlainArt @@ [artistEmail |-> EmailMixed]} :
           CreateInsert(1, art, now) /\ UNCHANGED obs
    \/ CreateSync(1) /\ UNCHANGED obs
    \/ CreateSyncFails(1) /\ UNCHANGED obs
    \/ \E id \in IdInputs :
           Update(1, id, [userEmail |-> EmailMixed, artistEmail |-> EmailMixed])
           /\ UNCHANGED obs
    \/ \E e \in EmailInputs :
           SyncOnLogin(1, [email |-> e, displayName |-> DisplayName,
                           photoURL |-> Photo])
           /\ UNCHANGED obs
    \/ \E e \in EmailInputs :
           AddFavoriteFind(1, [artId |-> 1, userEmail |-> e]) /\ UNCHANGED obs
    \/ AddFavoriteInsert(1) /\ UNCHANGED obs

SpecEmails == InitSolo /\ [][NextEmails]_vars

IsLowerCased(email) == ToLowerCase(email) = email

\* C28: every stored email is lower-cased, whatever the casing of the input
\* that wrote it: userEmail and artistEmail of every artwork, email of every
\* user, userEmail of every favorite.
EmailsLowerCased ==
    /\ \A a \in DOMAIN arts :
          /\ IsLowerCased(arts[a].userEmail)
          /\ IsLowerCased(arts[a].artistEmail)
    /\ \A u \in DOMAIN users : IsLowerCased(users[u].email)
    /\ \A f \in DOMAIN favorites : IsLowerCased(favorites[f].userEmail)

\* C29: in every state that Create, Update and Delete reach, the statistics
\* read a totalPublicArts that is the total of the public List with no
\* filter, and a totalPublicArts and a totalPrivateArts whose sum is the
\* number of stored artworks.
StatsCountsAddUp ==
    [][/\ StatsPublic(1)
          => req'[1].totalPublicArts = Cardinality(Matching(<<>>))
       /\ StatsPrivate(1)
          => req'[1].totalPublicArts + req'[1].totalPrivateArts
                = Cardinality(DOMAIN arts)]_vars

====
